---- MODULE Spec2Model ----
(***************************************************************************)
(* Model of src/db/models/device.rs: the Device entity, its local methods  *)
(* (new, refresh_twofactor_remember, delete_twofactor_remember,            *)
(* refresh_tokens) and its database methods (save, delete, find_by_uuid,   *)
(* find_by_refresh_token) over the `devices` table.                        *)
(*                                                                         *)
(* String is a TLA+ string, Option<T> is <<>> (None) or <<v>> (Some(v)),   *)
(* NaiveDateTime is a number of clock ticks, TicksPerSec ticks a second.   *)
(***************************************************************************)
EXTENDS Integers, Sequences, FiniteSets, TLC

VARIABLES
    store,      \* the devices table: uuid -> Option<Device> (primary key uuid)
    mem,        \* the Device value each request holds: Option<Device>
    lock,       \* per device id: the request serialized on it, or "free"
    stamp,      \* per user: index of the user's current security stamp
    clock,      \* Utc::now(), in ticks
    rng,        \* number of draws made from crypto::get_random so far
    sessions,   \* number of requests that have obtained a Device so far
    req,        \* per request: how it got its Device and what refresh_tokens did
    last,       \* the operation of the latest step: inputs, return value
    issued,     \* the refresh tokens returned to clients, per stored device
    lastSaved   \* per device id: refresh token written by the last successful save

vars == <<store, mem, lock, stamp, clock, rng, sessions, req, last, issued, lastSaved>>

----------------------------------------------------------------------------
(* Bounds of the model *)

MaxTime == 1
TicksPerSec == 2
MaxDraws == 2
MaxOrgs == 2
MaxStamp == 2
MaxClaimTime == 4
MaxSessions == 3

DeviceIds == {"d1", "d2"}
UserIds == {"u1", "u2"}
\* the device id and the user of the concurrent sessions
SessionDevices == {"d1"}
SessionUsers == {"u1"}
Requests == {"r1", "r2"}
OrgIds == {"o1", "o2"}
\* UserOrganization.type_ is an i32: 0 Owner, 1 Admin, 2 User, 3 any other role
OrgTypes == 0 .. 3

None == <<>>
Some(v) == <<v>>
Unwrap(o) == o[1]

----------------------------------------------------------------------------
(* Time *)

\* NaiveDateTime::timestamp(): whole seconds, the sub-second part dropped
Timestamp(t) == t \div TicksPerSec

\* auth::DEFAULT_VALIDITY, a chrono Duration of hours; held here in seconds
DEFAULT_VALIDITY_SECS == 7200

DEFAULT_VALIDITY == DEFAULT_VALIDITY_SECS * TicksPerSec

\* Duration::num_seconds(): whole seconds of a Duration
num_seconds(dur) == dur \div TicksPerSec

JWT_ISSUER == "localhost:8000|login"

----------------------------------------------------------------------------
(* crypto::get_random and data_encoding *)

\* The n bytes of the k-th draw of the secure random source: no two draws
\* give the same bytes (the draw number, big-endian, in n bytes).
get_random(n, k) ==
    [i \in 1 .. n |-> IF n - i > 3 THEN 0 ELSE (k \div (256 ^ (n - i))) % 256]

get_random_64(k) == get_random(64, k)

Upper == <<"A","B","C","D","E","F","G","H","I","J","K","L","M",
           "N","O","P","Q","R","S","T","U","V","W","X","Y","Z">>
Lower == <<"a","b","c","d","e","f","g","h","i","j","k","l","m",
           "n","o","p","q","r","s","t","u","v","w","x","y","z">>
Digit == <<"0","1","2","3","4","5","6","7","8","9">>

\* the two alphabets: sextet value v is character v + 1
BASE64_ALPHABET == Upper \o Lower \o Digit \o <<"+", "/">>
BASE64URL_ALPHABET == Upper \o Lower \o Digit \o <<"-", "_">>

\* RFC 4648 encoding with padding of one group of one to three bytes
EncodeGroup(alpha, bytes) ==
    IF Len(bytes) = 1 THEN
        alpha[(bytes[1] \div 4) + 1] \o alpha[((bytes[1] % 4) * 16) + 1] \o "=="
    ELSE IF Len(bytes) = 2 THEN
        alpha[(bytes[1] \div 4) + 1]
        \o alpha[((bytes[1] % 4) * 16) + (bytes[2] \div 16) + 1]
        \o alpha[((bytes[2] % 16) * 4) + 1] \o "="
    ELSE
        alpha[(bytes[1] \div 4) + 1]
        \o alpha[((bytes[1] % 4) * 16) + (bytes[2] \div 16) + 1]
        \o alpha[((bytes[2] % 16) * 4) + (bytes[3] \div 64) + 1]
        \o alpha[(bytes[3] % 64) + 1]

\* the encoding of a byte string: its three-byte groups' encodings in order
RECURSIVE Base64Encode(_, _)
Base64Encode(alpha, bytes) ==
    IF Len(bytes) = 0 THEN ""
    ELSE IF Len(bytes) <= 3 THEN EncodeGroup(alpha, bytes)
    ELSE LET half == 3 * (((Len(bytes) + 2) \div 3) \div 2)
         IN  Base64Encode(alpha, SubSeq(bytes, 1, half))
             \o Base64Encode(alpha, SubSeq(bytes, half + 1, Len(bytes)))

BASE64_encode(bytes) == Base64Encode(BASE64_ALPHABET, bytes)
BASE64URL_encode(bytes) == Base64Encode(BASE64URL_ALPHABET, bytes)

is_empty(s) == s = ""

----------------------------------------------------------------------------
(* Collaborating records: User and UserOrganization *)

SecurityStamp(i) == "s" \o Digit[i + 1]

\* the User row of user u as loaded at this moment
User(u) ==
    [uuid |-> u, name |-> u \o "-name", email |-> u \o "@mail",
     security_stamp |-> SecurityStamp(stamp[u])]

UserOrganization == [org_uuid : OrgIds, type_ : OrgTypes]

\* every Vec<UserOrganization> of at most MaxOrgs memberships
OrgInputs == UNION {[1 .. n -> UserOrganization] : n \in 0 .. MaxOrgs}

----------------------------------------------------------------------------
(* Local methods of Device *)

DeviceNames == {"n1"}
DeviceTypes == {0}

\* a constructor that leaves updated_at at the epoch
new_device_epoch(uuid, user_uuid, name, type_, now) ==
    [uuid |-> uuid, created_at |-> now, updated_at |-> 0,
     user_uuid |-> user_uuid, name |-> name, type_ |-> type_,
     push_token |-> None, refresh_token |-> "", twofactor_remember |-> None]

\* Device::new at time now
new_device(uuid, user_uuid, name, type_, now) ==
    [uuid |-> uuid, created_at |-> now, updated_at |-> now,
     user_uuid |-> user_uuid, name |-> name, type_ |-> type_,
     push_token |-> None, refresh_token |-> "", twofactor_remember |-> None]

\* the value refresh_twofactor_remember generates from draw k
twofactor_remember_token(k) == BASE64_encode(get_random(180, k))

\* refresh_twofactor_remember keeping a token that is already there
self_after_refresh_twofactor_remember_keep(self, token) ==
    IF self.twofactor_remember = None
    THEN [self EXCEPT !.twofactor_remember = Some(token)]
    ELSE self

\* self after refresh_twofactor_remember has generated token
self_after_refresh_twofactor_remember(self, token) ==
    [self EXCEPT !.twofactor_remember = Some(token)]

\* delete_twofactor_remember leaving the token in place
self_after_delete_twofactor_remember_kept(self) == self

\* self after delete_twofactor_remember
self_after_delete_twofactor_remember(self) ==
    [self EXCEPT !.twofactor_remember = None]

\* ensure_refresh_token without its test: a token is generated on every call
ensure_refresh_token_always(self, k) ==
    [self EXCEPT !.refresh_token = BASE64URL_encode(get_random_64(k))]

\* ensure_refresh_token with its test inverted
ensure_refresh_token_inverted(self, k) ==
    IF ~is_empty(self.refresh_token)
    THEN [self EXCEPT !.refresh_token = BASE64URL_encode(get_random_64(k))]
    ELSE self

\* refresh_tokens, "If there is no refresh token, we create one" (draw k)
ensure_refresh_token(self, k) ==
    IF is_empty(self.refresh_token)
    THEN [self EXCEPT !.refresh_token = BASE64URL_encode(get_random_64(k))]
    ELSE self

\* orgs.iter().filter(|o| o.type_ == ty).map(|o| o.org_uuid.clone()).collect()
RECURSIVE filter_map_orgs(_, _)
filter_map_orgs(orgs, ty) ==
    IF Len(orgs) = 0 THEN <<>>
    ELSE (IF Head(orgs).type_ = ty THEN <<Head(orgs).org_uuid>> ELSE <<>>)
         \o filter_map_orgs(Tail(orgs), ty)

orgowner(orgs) == filter_map_orgs(orgs, 0)

\* the admin filter testing the owner's type
orgadmin_as_owner(orgs) == filter_map_orgs(orgs, 0)

orgadmin(orgs) == filter_map_orgs(orgs, 1)

\* the user filter testing the admin's type
orguser_as_admin(orgs) == filter_map_orgs(orgs, 1)

\* the user filter testing type 3
orguser_off_by_one(orgs) == filter_map_orgs(orgs, 3)

orguser(orgs) == filter_map_orgs(orgs, 2)

claims_nbf(time_now) == Timestamp(time_now)

\* exp with the validity added to the timestamp instead of to the time
claims_exp_after_timestamp(time_now) == Timestamp(time_now) + DEFAULT_VALIDITY

claims_exp(time_now) == Timestamp(time_now + DEFAULT_VALIDITY)

\* the claims with sstamp and device taken from the wrong fields
JWTClaims_swapped(self, user, orgs, time_now) ==
    [nbf |-> claims_nbf(time_now),
     exp |-> claims_exp(time_now),
     iss |-> JWT_ISSUER,
     sub |-> user.uuid,
     premium |-> TRUE,
     name |-> user.name,
     email |-> user.email,
     email_verified |-> TRUE,
     orgowner |-> orgowner(orgs),
     orgadmin |-> orgadmin(orgs),
     orguser |-> orguser(orgs),
     sstamp |-> self.uuid,
     device |-> user.security_stamp,
     scope |-> <<"api", "offline_access">>,
     amr |-> <<"Application">>]

\* the JWTClaims struct refresh_tokens builds
JWTClaims(self, user, orgs, time_now) ==
    [nbf |-> claims_nbf(time_now),
     exp |-> claims_exp(time_now),
     iss |-> JWT_ISSUER,
     sub |-> user.uuid,
     premium |-> TRUE,
     name |-> user.name,
     email |-> user.email,
     email_verified |-> TRUE,
     orgowner |-> orgowner(orgs),
     orgadmin |-> orgadmin(orgs),
     orguser |-> orguser(orgs),
     sstamp |-> user.security_stamp,
     device |-> self.uuid,
     scope |-> <<"api", "offline_access">>,
     amr |-> <<"Application">>]

\* auth::encode_jwt: the signed token string, held as the claims it carries
encode_jwt(claims) == [jwt |-> claims]

\* the second component of what refresh_tokens returns
returned_validity == num_seconds(DEFAULT_VALIDITY)

----------------------------------------------------------------------------
(* Database methods of Device *)

\* an insert that leaves an existing row of the same uuid as it is
insert_or_ignore(table, self) ==
    IF table[self.uuid] = None THEN [table EXCEPT ![self.uuid] = Some(self)] ELSE table

\* replace_into writing every column but refresh_token
replace_into_without_refresh_token(table, self) ==
    [table EXCEPT ![self.uuid] = Some([self EXCEPT !.refresh_token = ""])]

\* a save that stamps nothing
set_updated_at_skipped(self, now) == self

\* self.updated_at = Utc::now().naive_utc(), the first statement of save
set_updated_at(self, now) == [self EXCEPT !.updated_at = now]

\* a write that keeps the stored remember token where self has none
replace_into_coalesce(table, self) ==
    IF table[self.uuid] # None /\ self.twofactor_remember = None
    THEN [table EXCEPT ![self.uuid] =
             Some([self EXCEPT !.twofactor_remember =
                                   Unwrap(table[self.uuid]).twofactor_remember])]
    ELSE [table EXCEPT ![self.uuid] = Some(self)]

\* diesel::replace_into(devices).values(self): one row per primary key
replace_into(table, self) == [table EXCEPT ![self.uuid] = Some(self)]

\* the row count execute returns for replace_into: the row written, whether
\* the id was stored before or not
replace_into_rows(table, self) == 1

\* the outcome of execute when the store reports an error
StoreErr == -1

\* a delete without the filter on uuid
delete_where_any(table, id) == [d \in DOMAIN table |-> None]

\* diesel::delete(devices.filter(uuid.eq(id)))
delete_where_uuid(table, id) == [table EXCEPT ![id] = None]

\* number of rows delete_where_uuid removes
rows_with_uuid(table, id) == IF table[id] = None THEN 0 ELSE 1

\* devices.filter(uuid.eq(uuid)).first().ok()
find_by_uuid_result(table, uuid) ==
    IF uuid \in DOMAIN table THEN table[uuid] ELSE None

\* the rows devices.filter(refresh_token.eq(t)) selects; first() returns one
rows_with_refresh_token(table, t) ==
    {Unwrap(table[d]) : d \in {x \in DOMAIN table :
        table[x] # None /\ Unwrap(table[x]).refresh_token = t}}

\* devices.filter(user_uuid.eq(u)).load()
find_by_user(table, u) ==
    {Unwrap(table[d]) : d \in {x \in DOMAIN table :
        table[x] # None /\ Unwrap(table[x]).user_uuid = u}}

----------------------------------------------------------------------------
(* State *)

NoRequest == [origin |-> "none", minted |-> "no"]

\* the record of a step that is no Device operation
NoOp == [op |-> "none", r |-> "none", ret |-> None, rt |-> None]

Op(op, r, ret, rt) == [op |-> op, r |-> r, ret |-> ret, rt |-> rt]

Init ==
    /\ store = [d \in DeviceIds |-> None]
    /\ mem = [r \in Requests |-> None]
    /\ lock = [d \in DeviceIds |-> "free"]
    /\ stamp = [u \in UserIds |-> 1]
    /\ clock = 0
    /\ rng = 0
    /\ sessions = 0
    /\ req = [r \in Requests |-> NoRequest]
    /\ last = NoOp
    /\ issued = {}
    /\ lastSaved = [d \in DeviceIds |-> None]

\* a request serialized on device id d takes d's lock with the Device
Acquire(r, d, ser) ==
    /\ ser => lock[d] = "free"
    /\ lock' = IF ser THEN [lock EXCEPT ![d] = r] ELSE lock

\* a request begins: it obtains its Device value
Begin(r) ==
    /\ mem[r] = None
    /\ sessions < MaxSessions
    /\ sessions' = sessions + 1

Release(r, d, ser) ==
    lock' = IF ser /\ lock[d] = r THEN [lock EXCEPT ![d] = "free"] ELSE lock

----------------------------------------------------------------------------
(* Operations *)

\* Device::new(uuid, user_uuid, name, type_); a serialized caller creates the
\* Device only when find_by_uuid found none
new(r, d, u, name, type_, ser) ==
    /\ Begin(r)
    /\ ser => store[d] = None
    /\ Acquire(r, d, ser)
    /\ mem' = [mem EXCEPT ![r] = Some(new_device(d, u, name, type_, clock))]
    /\ req' = [req EXCEPT ![r] = [origin |-> "new", minted |-> "no"]]
    /\ last' = NoOp
    /\ UNCHANGED <<store, stamp, clock, rng, issued, lastSaved>>

\* Device::find_by_uuid(uuid, conn) returning Some
find_by_uuid(r, d, ser) ==
    /\ Begin(r)
    /\ find_by_uuid_result(store, d) # None
    /\ Acquire(r, d, ser)
    /\ mem' = [mem EXCEPT ![r] = find_by_uuid_result(store, d)]
    /\ req' = [req EXCEPT ![r] = [origin |-> "find", minted |-> "no"]]
    /\ last' = NoOp
    /\ UNCHANGED <<store, stamp, clock, rng, issued, lastSaved>>

\* the refresh tokens a client may present
PresentableTokens ==
    {""} \cup {i.refresh_token : i \in issued}
         \cup {Unwrap(store[d]).refresh_token : d \in {x \in DeviceIds : store[x] # None}}

\* Device::find_by_refresh_token(refresh_token, conn) returning Some
find_by_refresh_token(r, t, ser) ==
    /\ Begin(r)
    /\ \E row \in rows_with_refresh_token(store, t) :
        /\ Acquire(r, row.uuid, ser)
        /\ mem' = [mem EXCEPT ![r] = Some(row)]
    /\ req' = [req EXCEPT ![r] = [origin |-> "find", minted |-> "no"]]
    /\ last' = NoOp
    /\ UNCHANGED <<store, stamp, clock, rng, issued, lastSaved>>

\* Device::refresh_twofactor_remember(&mut self)
refresh_twofactor_remember(r) ==
    /\ mem[r] # None
    /\ rng < MaxDraws
    /\ LET twofactor_remember == twofactor_remember_token(rng)
       IN  /\ mem' = [mem EXCEPT ![r] =
                  Some(self_after_refresh_twofactor_remember(Unwrap(mem[r]),
                                                             twofactor_remember))]
           /\ last' = Op("refresh_twofactor_remember", r, Some(twofactor_remember), None)
    /\ rng' = rng + 1
    /\ UNCHANGED <<store, lock, stamp, clock, sessions, req, issued, lastSaved>>

\* a delete_twofactor_remember that writes the Device through to the store
delete_twofactor_remember_written(r) ==
    /\ mem[r] # None
    /\ mem' = [mem EXCEPT ![r] =
                  Some(self_after_delete_twofactor_remember(Unwrap(mem[r])))]
    /\ store' = replace_into(store, self_after_delete_twofactor_remember(Unwrap(mem[r])))
    /\ last' = Op("delete_twofactor_remember", r, None, None)
    /\ UNCHANGED <<lock, stamp, clock, rng, sessions, req, issued, lastSaved>>

\* Device::delete_twofactor_remember(&mut self)
delete_twofactor_remember(r) ==
    /\ mem[r] # None
    /\ mem' = [mem EXCEPT ![r] =
                  Some(self_after_delete_twofactor_remember(Unwrap(mem[r])))]
    /\ last' = Op("delete_twofactor_remember", r, None, None)
    /\ UNCHANGED <<store, lock, stamp, clock, rng, sessions, req, issued, lastSaved>>

\* Device::refresh_tokens(&mut self, user, orgs)
refresh_tokens(r, u, orgs) ==
    /\ mem[r] # None
    /\ LET self == Unwrap(mem[r])
           draws == is_empty(self.refresh_token)
           user == User(u)
           time_now == clock
           at_claims == [ensure_refresh_token(self, rng) EXCEPT !.updated_at = time_now]
           claims == JWTClaims(at_claims, user, orgs, time_now)
       IN  /\ draws => rng < MaxDraws
           /\ rng' = IF draws THEN rng + 1 ELSE rng
           /\ mem' = [mem EXCEPT ![r] = Some(at_claims)]
           /\ req' = [req EXCEPT ![r].minted = IF draws THEN "generated" ELSE "reused"]
           /\ last' = Op("refresh_tokens", r,
                         Some(<<encode_jwt(claims), returned_validity>>),
                         Some([user |-> user, orgs |-> orgs, time_now |-> time_now,
                               at_claims |-> at_claims, claims |-> claims]))
    /\ UNCHANGED <<store, lock, stamp, clock, sessions, issued, lastSaved>>

\* Device::save(&mut self, conn); db_ok: the store executes the statement
\* (Ok(1), one row written) rather than reporting an error
save(r, db_ok) ==
    /\ mem[r] # None
    /\ LET self == set_updated_at(Unwrap(mem[r]), clock)
       IN  /\ mem' = [mem EXCEPT ![r] = Some(self)]
           /\ store' = IF db_ok THEN replace_into(store, self) ELSE store
           /\ lastSaved' = IF db_ok
                           THEN [lastSaved EXCEPT ![self.uuid] = Some(self.refresh_token)]
                           ELSE lastSaved
           \* the caller answers the client once the Device it minted for is saved
           /\ issued' = IF db_ok /\ req[r].minted # "no"
                        THEN issued \cup {[uuid |-> self.uuid,
                                           refresh_token |-> self.refresh_token]}
                        ELSE issued
           /\ last' = Op("save", r,
                         Some((IF db_ok THEN replace_into_rows(store, self)
                                        ELSE StoreErr) = 1),
                         Some([store_error |-> ~db_ok]))
    /\ UNCHANGED <<lock, stamp, clock, rng, sessions, req>>

\* Device::delete(self, conn); consumes self
delete(r, db_ok, ser) ==
    /\ mem[r] # None
    /\ LET self == Unwrap(mem[r])
           ok == db_ok /\ rows_with_uuid(store, self.uuid) = 1
       IN  /\ store' = IF db_ok THEN delete_where_uuid(store, self.uuid) ELSE store
           /\ lastSaved' = IF ok THEN [lastSaved EXCEPT ![self.uuid] = None]
                           ELSE lastSaved
           /\ issued' = IF ok THEN {i \in issued : i.uuid # self.uuid} ELSE issued
           /\ Release(r, self.uuid, ser)
           /\ last' = Op("delete", r, Some(ok), None)
    /\ mem' = [mem EXCEPT ![r] = None]
    /\ req' = [req EXCEPT ![r] = NoRequest]
    /\ UNCHANGED <<stamp, clock, rng, sessions>>

\* the request ends and its Device value is dropped
drop(r, ser) ==
    /\ mem[r] # None
    /\ Release(r, Unwrap(mem[r]).uuid, ser)
    /\ mem' = [mem EXCEPT ![r] = None]
    /\ req' = [req EXCEPT ![r] = NoRequest]
    /\ last' = NoOp
    /\ UNCHANGED <<store, stamp, clock, rng, sessions, issued, lastSaved>>

\* time passes between two readings of Utc::now()
Tick ==
    /\ clock < MaxTime
    /\ clock' = clock + 1
    /\ last' = NoOp
    /\ UNCHANGED <<store, mem, lock, stamp, rng, sessions, req, issued, lastSaved>>

\* the user's credentials change: a new security stamp
change_security_stamp(u) ==
    /\ stamp[u] < MaxStamp
    /\ stamp' = [stamp EXCEPT ![u] = stamp[u] + 1]
    /\ last' = NoOp
    /\ UNCHANGED <<store, mem, lock, clock, rng, sessions, req, issued, lastSaved>>

----------------------------------------------------------------------------
(* Specifications *)

\* refresh_tokens as the callers use it: with the owner of the Device
refresh_tokens_for_owner(r) ==
    /\ mem[r] # None
    /\ refresh_tokens(r, Unwrap(mem[r]).user_uuid, <<>>)

\* One request at a time: every method of Device on the table
Next ==
    \/ \E d \in DeviceIds, u \in SessionUsers, name \in DeviceNames, type_ \in DeviceTypes :
          new("r1", d, u, name, type_, FALSE)
    \/ \E d \in DeviceIds : find_by_uuid("r1", d, FALSE)
    \/ \E t \in PresentableTokens : find_by_refresh_token("r1", t, FALSE)
    \/ refresh_twofactor_remember("r1")
    \/ delete_twofactor_remember("r1")
    \/ refresh_tokens_for_owner("r1")
    \/ \E db_ok \in BOOLEAN : save("r1", db_ok)
    \/ \E db_ok \in BOOLEAN : delete("r1", db_ok, FALSE)
    \/ drop("r1", FALSE)
    \/ Tick

Spec == Init /\ [][Next]_vars

\* Concurrent requests issuing tokens; ser: each is serialized on its device id
Sessions(ser, D) ==
    \/ \E r \in Requests, d \in D, u \in SessionUsers,
          name \in DeviceNames, type_ \in DeviceTypes : new(r, d, u, name, type_, ser)
    \/ \E r \in Requests, d \in D : find_by_uuid(r, d, ser)
    \/ \E r \in Requests, t \in PresentableTokens : find_by_refresh_token(r, t, ser)
    \/ \E r \in Requests : refresh_tokens_for_owner(r)
    \/ \E r \in Requests, db_ok \in BOOLEAN : save(r, db_ok)
    \/ \E r \in Requests, db_ok \in BOOLEAN : delete(r, db_ok, ser)
    \/ \E r \in Requests : drop(r, ser)
    \/ Tick

\* requests interleave freely: the core takes no lock
NextRace == Sessions(FALSE, SessionDevices)

SpecRace == Init /\ [][NextRace]_vars

\* every request holds the lock of its device id from load to save
NextSerial == Sessions(TRUE, DeviceIds)

SpecSerial == Init /\ [][NextSerial]_vars

\* refresh_tokens on every input: any Device, User, memberships and time
InitClaims ==
    /\ store = [d \in DeviceIds |-> None]
    /\ mem = [r \in Requests |-> None]
    /\ lock = [d \in DeviceIds |-> "free"]
    /\ stamp = [u \in UserIds |-> 1]
    /\ clock \in 0 .. MaxClaimTime
    /\ rng = 0
    /\ sessions = 0
    /\ req = [r \in Requests |-> NoRequest]
    /\ last = NoOp
    /\ issued = {}
    /\ lastSaved = [d \in DeviceIds |-> None]

NextClaims ==
    \/ \E d \in DeviceIds, u \in SessionUsers, name \in DeviceNames, type_ \in DeviceTypes :
          new("r1", d, u, name, type_, FALSE)
    \/ \E u \in UserIds : refresh_tokens("r1", u, <<>>)
    \/ \E u \in UserIds : change_security_stamp(u)
    \/ drop("r1", FALSE)

SpecClaims == InitClaims /\ [][NextClaims]_vars

\* refresh_tokens on every membership list
NextOrgs ==
    \/ \E d \in SessionDevices, u \in SessionUsers,
          name \in DeviceNames, type_ \in DeviceTypes : new("r1", d, u, name, type_, FALSE)
    \/ \E orgs \in OrgInputs :
          /\ mem["r1"] # None
          /\ refresh_tokens("r1", Unwrap(mem["r1"]).user_uuid, orgs)
    \/ drop("r1", FALSE)

SpecOrgs == Init /\ [][NextOrgs]_vars

----------------------------------------------------------------------------
(* Properties *)

\* the Device a request holds
Held(r) == Unwrap(mem[r])

\* the operations that mutate a Device in place
MutatingOps ==
    {"refresh_tokens", "refresh_twofactor_remember", "delete_twofactor_remember", "save"}

\* C1: once the refresh_token of a Device is non-empty, refresh_tokens,
\* refresh_twofactor_remember, delete_twofactor_remember and save on that
\* Device leave it as it is: a second refresh_tokens call reuses the token.
C1_RefreshTokenKept ==
    [][\A r \in Requests :
          (/\ last'.op \in MutatingOps
           /\ last'.r = r
           /\ mem[r] # None
           /\ ~is_empty(Held(r).refresh_token))
          => (mem'[r] # None /\ Unwrap(mem'[r]).refresh_token = Held(r).refresh_token)]_vars

\* refresh_tokens has just run on a Device that already had its token
C1_Witness ==
    /\ last.op = "refresh_tokens"
    /\ req[last.r].minted = "reused"
    /\ ~is_empty(Held(last.r).refresh_token)

\* C2: when refresh_tokens returns, the refresh_token of the Device is
\* non-empty, and it was non-empty when the claims were built.
C2_TokenEnsuredBeforeClaims ==
    last.op = "refresh_tokens" =>
        /\ ~is_empty(Held(last.r).refresh_token)
        /\ ~is_empty(Unwrap(last.rt).at_claims.refresh_token)
        /\ Len(Held(last.r).refresh_token) > 0

\* refresh_tokens has just run on a Device fresh from new
C2_Witness ==
    /\ last.op = "refresh_tokens"
    /\ req[last.r] = [origin |-> "new", minted |-> "generated"]

\* C10: each refresh_twofactor_remember call generates a token, stores it in
\* place of the previous one and returns the stored value; the value differs
\* from the one the Device had before the call.
C10_RememberTokenRenewed ==
    [][\A r \in Requests :
          (last'.op = "refresh_twofactor_remember" /\ last'.r = r /\ mem[r] # None)
          => /\ mem'[r] # None
             /\ last'.ret # None
             /\ Unwrap(mem'[r]).twofactor_remember = last'.ret
             /\ Unwrap(mem'[r]).twofactor_remember # Held(r).twofactor_remember
             /\ Unwrap(mem'[r]) = [Held(r) EXCEPT !.twofactor_remember = last'.ret]]_vars

\* a second call: the Device was saved with one remember token and has
\* just been given another
C10_Witness ==
    /\ last.op = "refresh_twofactor_remember"
    /\ store[Held(last.r).uuid] # None
    /\ Unwrap(store[Held(last.r).uuid]).twofactor_remember # None
    /\ Unwrap(store[Held(last.r).uuid]).twofactor_remember # Held(last.r).twofactor_remember

\* the row of device id d
Row(d) == Unwrap(store[d])

\* C3: with every load -> refresh_tokens -> save sequence serialized on its
\* device id, each refresh token returned to a client for a device still in
\* the store is the refresh_token stored for that device.
C3_IssuedTokenStored ==
    \A i \in issued :
        store[i.uuid] # None => Row(i.uuid).refresh_token = i.refresh_token

\* a later request found the stored Device, reused its token and saved it,
\* while another request works on the other device id
C3_Witness ==
    /\ last.op = "save"
    /\ last.ret = Some(TRUE)
    /\ req[last.r] = [origin |-> "find", minted |-> "reused"]
    /\ [uuid |-> Held(last.r).uuid, refresh_token |-> Held(last.r).refresh_token] \in issued
    /\ \E r \in Requests \ {last.r} :
          mem[r] # None /\ lock[Held(r).uuid] = r /\ lock[Held(last.r).uuid] = last.r

\* two requests that both found the stored Device without a refresh token,
\* both generated one and both saved it
Raced(r1, r2) ==
    /\ r1 # r2
    /\ mem[r1] # None /\ mem[r2] # None
    /\ Held(r1).uuid = Held(r2).uuid
    /\ req[r1] = [origin |-> "find", minted |-> "generated"]
    /\ req[r2] = [origin |-> "find", minted |-> "generated"]
    /\ Held(r1).refresh_token # Held(r2).refresh_token
    /\ [uuid |-> Held(r1).uuid, refresh_token |-> Held(r1).refresh_token] \in issued
    /\ [uuid |-> Held(r2).uuid, refresh_token |-> Held(r2).refresh_token] \in issued
    /\ store[Held(r1).uuid] # None

\* C4: without serialization two requests can both find the stored Device
\* with an empty refresh_token and generate two different tokens; after both
\* saves the store holds the token of the last save only, and the other
\* token resolves to no Device through find_by_refresh_token.
C4_LastSaveWins ==
    \A r1, r2 \in Requests :
        Raced(r1, r2) =>
            LET d == Held(r1).uuid
                both == {Held(r1).refresh_token, Held(r2).refresh_token}
                kept == Row(d).refresh_token
            IN  /\ kept \in both
                /\ lastSaved[d] = Some(kept)
                /\ \A t \in both \ {kept} : rows_with_refresh_token(store, t) = {}
                /\ \A row \in rows_with_refresh_token(store, kept) : row.uuid = d

\* the race has happened
C4_Witness == \E r1, r2 \in Requests : Raced(r1, r2)

----------------------------------------------------------------------------
(* Properties of the claims *)

\* the claims carried by the token the last refresh_tokens call returned
ReturnedClaims == Unwrap(last.ret)[1].jwt

\* the validity the last refresh_tokens call returned
ReturnedValidity == Unwrap(last.ret)[2]

\* the inputs of the last refresh_tokens call
Input == Unwrap(last.rt)

Range(s) == {s[i] : i \in 1 .. Len(s)}

Count(s, x) == Cardinality({i \in 1 .. Len(s) : s[i] = x})

\* the organization ids of the memberships of role ty, in input order
IdsWithRole(orgs, ty) ==
    LET sel == SelectSeq(orgs, LAMBDA o : o.type_ = ty)
    IN  [i \in 1 .. Len(sel) |-> sel[i].org_uuid]

\* the positions of the memberships whose role is Owner, Admin or User
ListedPositions(orgs) == {i \in 1 .. Len(orgs) : orgs[i].type_ \in {0, 1, 2}}

\* how often organization id o occurs in the three claim lists
Occurrences(c, o) == Count(c.orgowner, o) + Count(c.orgadmin, o) + Count(c.orguser, o)

\* C5: orgowner, orgadmin and orguser are the organization ids of the
\* memberships of type 0, 1 and 2, each in input order; a membership of
\* another type is in none of the three lists.
C5_ListsPartitionByRole ==
    last.op = "refresh_tokens" =>
        /\ ReturnedClaims.orgowner = IdsWithRole(Input.orgs, 0)
        /\ ReturnedClaims.orgadmin = IdsWithRole(Input.orgs, 1)
        /\ ReturnedClaims.orguser = IdsWithRole(Input.orgs, 2)
        /\ Len(ReturnedClaims.orgowner) + Len(ReturnedClaims.orgadmin)
               + Len(ReturnedClaims.orguser)
           = Cardinality(ListedPositions(Input.orgs))

\* two owners kept in input order next to nothing else
C5_Witness ==
    /\ last.op = "refresh_tokens"
    /\ ReturnedClaims.orgowner = <<"o2", "o1">>
    /\ ReturnedClaims.orgadmin = <<>>

\* C6 as claimed: every organization id of the input occurs exactly once in
\* the three lists together, or not at all if none of its roles is listed.
C6_EachIdInOneList ==
    last.op = "refresh_tokens" =>
        \A o \in Range([i \in 1 .. Len(Input.orgs) |-> Input.orgs[i].org_uuid]) :
            Occurrences(ReturnedClaims, o) =
                IF \E i \in ListedPositions(Input.orgs) : Input.orgs[i].org_uuid = o
                THEN 1 ELSE 0

\* no organization id occurs in two memberships of the input
DistinctOrgs(orgs) ==
    \A i, j \in 1 .. Len(orgs) : orgs[i].org_uuid = orgs[j].org_uuid => i = j

\* C6 amended: for an input in which no organization id occurs twice, every
\* organization id of the input occurs exactly once in the three lists
\* together, or not at all if its role is not listed.
C6_EachIdInOneListIfDistinct ==
    (last.op = "refresh_tokens" /\ DistinctOrgs(Input.orgs)) =>
        \A o \in Range([i \in 1 .. Len(Input.orgs) |-> Input.orgs[i].org_uuid]) :
            Occurrences(ReturnedClaims, o) =
                IF \E i \in ListedPositions(Input.orgs) : Input.orgs[i].org_uuid = o
                THEN 1 ELSE 0

\* two organizations, one of a listed role and one of another role
C6_Witness ==
    /\ last.op = "refresh_tokens"
    /\ Len(Input.orgs) = 2
    /\ DistinctOrgs(Input.orgs)
    /\ Input.orgs[1].type_ = 1
    /\ Input.orgs[2].type_ = 3
    /\ Occurrences(ReturnedClaims, Input.orgs[1].org_uuid) = 1
    /\ Occurrences(ReturnedClaims, Input.orgs[2].org_uuid) = 0

\* the organization ids in the three lists
ListedIds(c) == Range(c.orgowner) \cup Range(c.orgadmin) \cup Range(c.orguser)

\* C7 as claimed: every organization id of the input is in one of the lists.
C7_NoIdDropped ==
    last.op = "refresh_tokens" =>
        \A i \in 1 .. Len(Input.orgs) : Input.orgs[i].org_uuid \in ListedIds(ReturnedClaims)

\* C7 amended: the organization ids in the three lists are those of the
\* input memberships of role Owner, Admin or User; none of these is dropped.
C7_NoListedIdDropped ==
    last.op = "refresh_tokens" =>
        ListedIds(ReturnedClaims) =
            {Input.orgs[i].org_uuid : i \in ListedPositions(Input.orgs)}

\* a User membership kept next to a membership of another role that is dropped
C7_Witness ==
    /\ last.op = "refresh_tokens"
    /\ Len(Input.orgs) = 2
    /\ Input.orgs[1] = [org_uuid |-> "o1", type_ |-> 3]
    /\ Input.orgs[2] = [org_uuid |-> "o2", type_ |-> 2]
    /\ ListedIds(ReturnedClaims) = {"o2"}

\* C8: the validity refresh_tokens returns is exp - nbf of the claims, nbf
\* being the whole seconds of the current time and exp those of the current
\* time plus the validity.
C8_ValidityIsExpMinusNbf ==
    last.op = "refresh_tokens" =>
        /\ ReturnedValidity = ReturnedClaims.exp - ReturnedClaims.nbf
        /\ ReturnedClaims.nbf * TicksPerSec <= Input.time_now
        /\ Input.time_now < (ReturnedClaims.nbf + 1) * TicksPerSec
        /\ ReturnedClaims.exp * TicksPerSec <= Input.time_now + DEFAULT_VALIDITY
        /\ Input.time_now + DEFAULT_VALIDITY < (ReturnedClaims.exp + 1) * TicksPerSec

\* a call at a time with a sub-second part, after a whole second has passed
C8_Witness ==
    /\ last.op = "refresh_tokens"
    /\ Input.time_now % TicksPerSec # 0
    /\ ReturnedClaims.nbf >= 1

\* C9: the token carries the security stamp the User has at the call, the
\* id of the Device it was called on and the id of the User as subject.
C9_ClaimsBindCurrentStampAndDevice ==
    last.op = "refresh_tokens" =>
        /\ ReturnedClaims.sstamp = SecurityStamp(stamp[Input.user.uuid])
        /\ ReturnedClaims.sstamp = Input.user.security_stamp
        /\ ReturnedClaims.device = Held(last.r).uuid
        /\ ReturnedClaims.sub = Input.user.uuid

\* a token issued on a Device that had tokens before, after the stamp changed
C9_Witness ==
    /\ last.op = "refresh_tokens"
    /\ req[last.r].minted = "reused"
    /\ stamp[Input.user.uuid] = 2
    /\ ReturnedClaims.sstamp = "s2"
    /\ ReturnedClaims.device = "d2"

\* the values refresh_twofactor_remember can have generated
IssuableRememberTokens == {twofactor_remember_token(k) : k \in 0 .. MaxDraws}

\* every Device, held or stored, has no remember token or a whole generated one
RememberTokensWhole ==
    /\ \A r \in Requests :
          mem[r] # None /\ Held(r).twofactor_remember # None
          => /\ Unwrap(Held(r).twofactor_remember) \in IssuableRememberTokens
             /\ Len(Unwrap(Held(r).twofactor_remember)) = 240
    /\ \A d \in DeviceIds :
          store[d] # None /\ Unwrap(store[d]).twofactor_remember # None
          => /\ Unwrap(Unwrap(store[d]).twofactor_remember) \in IssuableRememberTokens
             /\ Len(Unwrap(Unwrap(store[d]).twofactor_remember)) = 240

\* C11: delete_twofactor_remember always runs and leaves twofactor_remember
\* absent, whether it was present or not; refresh_tokens and save leave
\* twofactor_remember as it was, so it stays absent until the next
\* refresh_twofactor_remember; and every twofactor_remember is absent or a
\* whole token of one refresh_twofactor_remember call.
C11_RememberTokenInvalidated ==
    [][/\ \A r \in Requests :
             mem[r] # None => ENABLED delete_twofactor_remember(r)
       /\ \A r \in Requests :
             (last'.op = "delete_twofactor_remember" /\ last'.r = r /\ mem[r] # None)
             => /\ mem'[r] # None
                /\ Unwrap(mem'[r]).twofactor_remember = None
                /\ Unwrap(mem'[r]) = [Held(r) EXCEPT !.twofactor_remember = None]
       /\ \A r \in Requests :
             (last'.op \in {"refresh_tokens", "save"} /\ last'.r = r /\ mem[r] # None)
             => /\ mem'[r] # None
                /\ Unwrap(mem'[r]).twofactor_remember = Held(r).twofactor_remember
       /\ RememberTokensWhole']_vars

\* delete_twofactor_remember has just run on a Device that was saved with a
\* remember token
C11_Witness ==
    /\ last.op = "delete_twofactor_remember"
    /\ Held(last.r).twofactor_remember = None
    /\ store[Held(last.r).uuid] # None
    /\ Row(Held(last.r).uuid).twofactor_remember # None

\* C12: after a save that reported success, find_by_uuid of the id of the
\* saved Device returns a record equal in every field, the updated_at that
\* save stamped included, to the Device the caller holds.
C12_SaveThenFindRoundTrip ==
    (last.op = "save" /\ last.ret = Some(TRUE))
    => /\ find_by_uuid_result(store, Held(last.r).uuid) = mem[last.r]
       /\ Row(Held(last.r).uuid).updated_at = clock
       /\ \A f \in DOMAIN Held(last.r) : Row(Held(last.r).uuid)[f] = Held(last.r)[f]

\* a Device from new, given its tokens at an earlier instant, has just been
\* saved while no other Device is stored
C12_Witness ==
    /\ last.op = "save"
    /\ last.ret = Some(TRUE)
    /\ req[last.r] = [origin |-> "new", minted |-> "generated"]
    /\ Held(last.r).twofactor_remember # None
    /\ Held(last.r).created_at < Held(last.r).updated_at
    /\ \A d \in DeviceIds \ {Held(last.r).uuid} : store[d] = None

\* the ids whose row a step removes
RemovedIds == {d \in DeviceIds : store[d] # None /\ store'[d] = None}

\* C13: delete removes the row whose uuid is that of the Device and no
\* other, and returns true iff one row was removed; after a delete that
\* returned true, find_by_uuid of the id finds nothing and the rows of other
\* ids are as they were; delete of a Device whose id is not stored returns
\* false and leaves the store as it was.
C13_DeleteRemovesOwnRow ==
    [][\A r \in Requests :
          (last'.op = "delete" /\ last'.r = r /\ mem[r] # None)
          => /\ RemovedIds \subseteq {Held(r).uuid}
             /\ (last'.ret = Some(TRUE)) <=> (Cardinality(RemovedIds) = 1)
             /\ last'.ret \in {Some(TRUE), Some(FALSE)}
             /\ \A d \in DeviceIds \ {Held(r).uuid} : store'[d] = store[d]
             /\ last'.ret = Some(TRUE)
                => find_by_uuid_result(store', Held(r).uuid) = None
             /\ store[Held(r).uuid] = None
                => (last'.ret = Some(FALSE) /\ store' = store)]_vars

\* a delete has just returned true and the row of another id is still stored
C13_Witness ==
    /\ last.op = "delete"
    /\ last.ret = Some(TRUE)
    /\ \E d \in DeviceIds : store[d] # None
    /\ \E d \in DeviceIds : store[d] = None

\* C14: save is an upsert keyed by uuid. The store never holds two rows of
\* one uuid; a save the store does not fail returns true whether the uuid
\* was stored before or not, and after it the row of that uuid is the Device
\* the caller holds, every field, with nothing of the row it replaced; the
\* rows of other ids are as they were.
C14_SaveIsUpsert ==
    [][/\ \A d \in DeviceIds : rows_with_uuid(store', d) <= 1
       /\ \A r \in Requests :
             (last'.op = "save" /\ last'.r = r /\ mem[r] # None)
             => /\ ~Unwrap(last'.rt).store_error => last'.ret = Some(TRUE)
                /\ last'.ret = Some(TRUE)
                   => /\ store'[Held(r).uuid] = mem'[r]
                      /\ mem'[r] = Some([Held(r) EXCEPT !.updated_at = clock])
                      /\ \A d \in DeviceIds \ {Held(r).uuid} : store'[d] = store[d]]_vars

\* a Device loaded from its row, which had neither token, has been given a
\* refresh token and has just been saved over that row
C14_Witness ==
    /\ last.op = "save"
    /\ last.ret = Some(TRUE)
    /\ req[last.r] = [origin |-> "find", minted |-> "generated"]
    /\ Row(Held(last.r).uuid).refresh_token # ""

\* no Device, held or stored, was updated before it was created
UpdatedNotBeforeCreated ==
    /\ \A r \in Requests : mem[r] # None => Held(r).updated_at >= Held(r).created_at
    /\ \A d \in DeviceIds : store[d] # None => Row(d).updated_at >= Row(d).created_at

\* C15: every Device has updated_at >= created_at; no operation on a Device
\* moves its updated_at back; new sets created_at and updated_at to the one
\* instant it read; refresh_tokens and save set updated_at to the current
\* time.
C15_UpdatedAtMonotone ==
    [][/\ UpdatedNotBeforeCreated'
       /\ \A r \in Requests :
             /\ (mem[r] # None /\ mem'[r] # None)
                => Unwrap(mem'[r]).updated_at >= Held(r).updated_at
             /\ (mem[r] = None /\ mem'[r] # None /\ req'[r].origin = "new")
                => /\ Unwrap(mem'[r]).created_at = clock
                   /\ Unwrap(mem'[r]).updated_at = clock
             /\ (last'.op \in {"refresh_tokens", "save"} /\ last'.r = r /\ mem[r] # None)
                => /\ mem'[r] # None
                   /\ Unwrap(mem'[r]).updated_at = clock
                   /\ clock' = clock
             /\ (last'.op \in {"refresh_twofactor_remember", "delete_twofactor_remember"}
                 /\ last'.r = r /\ mem[r] # None)
                => Unwrap(mem'[r]).updated_at = Held(r).updated_at]_vars

\* refresh_tokens has just run on a Device created at an earlier instant
C15_Witness ==
    /\ last.op = "refresh_tokens"
    /\ req[last.r].origin = "new"
    /\ Held(last.r).created_at < Held(last.r).updated_at
    /\ Held(last.r).updated_at = clock

\* C16 as stated: a save or delete that returns false leaves the store as it
\* was, and a save that returns false leaves the Device of the caller with
\* the field values it had before the call.
C16_FailureLeavesDeviceAsSet ==
    [][\A r \in Requests :
          (last'.op \in {"save", "delete"} /\ last'.r = r /\ mem[r] # None
           /\ last'.ret # Some(TRUE))
          => /\ last'.ret = Some(FALSE)
             /\ store' = store
             /\ last'.op = "save" => mem'[r] = mem[r]]_vars

\* C16, amended: a save or delete that returns false leaves the store as it
\* was. After a save that returned false the Device of the caller has the
\* field values it had before the call except updated_at, which is the time
\* of the call; a delete has consumed the Device, whatever it returned.
C16_FailureLeavesAllButUpdatedAt ==
    [][\A r \in Requests :
          (last'.op \in {"save", "delete"} /\ last'.r = r /\ mem[r] # None
           /\ last'.ret # Some(TRUE))
          => /\ last'.ret = Some(FALSE)
             /\ store' = store
             /\ last'.op = "save"
                => /\ mem'[r] = Some([Held(r) EXCEPT !.updated_at = clock])
                   /\ \A f \in DOMAIN Held(r) \ {"updated_at"} :
                         Unwrap(mem'[r])[f] = Held(r)[f]
             /\ last'.op = "delete" => mem'[r] = None]_vars

\* a save of a Device loaded from its row has just returned false, at a later
\* instant than the one the row was written at
C16_Witness ==
    /\ last.op = "save"
    /\ last.ret = Some(FALSE)
    /\ req[last.r] = [origin |-> "find", minted |-> "no"]
    /\ store[Held(last.r).uuid] # None
    /\ Row(Held(last.r).uuid).updated_at < Held(last.r).updated_at

\* the operations that act on the Device of the caller alone
LocalOps == {"refresh_tokens", "refresh_twofactor_remember", "delete_twofactor_remember"}

\* C17: refresh_tokens, refresh_twofactor_remember and
\* delete_twofactor_remember leave the store as it is and leave uuid and
\* user_uuid of the Device as they are; a row is written only by a save that
\* returns true, so what find_by_uuid and find_by_refresh_token resolve
\* changes only then (or by a delete).
C17_LocalOpsLeaveStore ==
    [][/\ \A r \in Requests :
             (last'.op \in LocalOps /\ last'.r = r /\ mem[r] # None)
             => /\ store' = store
                /\ mem'[r] # None
                /\ Unwrap(mem'[r]).uuid = Held(r).uuid
                /\ Unwrap(mem'[r]).user_uuid = Held(r).user_uuid
                /\ \A t \in {Unwrap(mem'[r]).refresh_token} \ {Held(r).refresh_token} :
                      rows_with_refresh_token(store', t) = {}
       /\ \A d \in DeviceIds :
             (store'[d] # store[d] /\ store'[d] # None)
             => (last'.op = "save" /\ last'.ret = Some(TRUE))]_vars

\* refresh_tokens has just generated a refresh token for a Device loaded from
\* its row: the row still has the old value and no row has the new one
C17_Witness ==
    /\ last.op = "refresh_tokens"
    /\ req[last.r] = [origin |-> "find", minted |-> "generated"]
    /\ store[Held(last.r).uuid] # None
    /\ Row(Held(last.r).uuid).refresh_token # Held(last.r).refresh_token
    /\ rows_with_refresh_token(store, Held(last.r).refresh_token) = {}

\* C18: find_by_refresh_token returns a stored Device only if a refresh token
\* has been generated for it: for no value a client can present, the empty
\* string included, does it return a row whose refresh_token is still the
\* empty string of new.
C18_UnissuedNeverResolved ==
    \A t \in PresentableTokens :
        \A row \in rows_with_refresh_token(store, t) : ~is_empty(row.refresh_token)

\* C19: once a delete of an id has returned true, a save by a request that
\* loaded the Device before the delete, after refresh_tokens on its copy or
\* not, does not bring the row back, so neither the id nor its refresh token
\* resolves again.
C19_DeletedStaysDeleted ==
    [][\A r \in Requests :
          (/\ last'.op = "save"
           /\ last'.r = r
           /\ mem[r] # None
           /\ req[r].origin = "find"
           /\ store[Held(r).uuid] = None)
          => /\ find_by_uuid_result(store', Held(r).uuid) = None
             /\ rows_with_refresh_token(store', Unwrap(mem'[r]).refresh_token) = {}]_vars

\* C20: every access token refresh_tokens returns for a Device has as sub the
\* user_uuid of that Device, whichever User it is called with.
C20_SubjectIsOwner ==
    last.op = "refresh_tokens" =>
        /\ ReturnedClaims.device = Held(last.r).uuid
        /\ ReturnedClaims.sub = Held(last.r).user_uuid

====
